---- MODULE Spec2Model ----
(***************************************************************************)
(* Model of pymatgen/entries/compatibility.py: the correction units        *)
(* (PotcarCorrection, GasCorrection, AnionCorrection,                      *)
(* CompositionCorrection, AqueousCorrection, UCorrection) and the          *)
(* Compatibility aggregator (get_corrections_dict, process_entry,          *)
(* process_entries).                                                       *)
(*                                                                         *)
(* Numbers.  Energies are integers in units of 0.005 eV, so that the       *)
(* hydration term 0.5 * 2.46 * min(H/2, O) = 0.615 * min(H, 2*O) eV is the *)
(* integer 123 * min(H, 2*O).  A ufloat is a record [n, var]: its nominal  *)
(* value and the SQUARE of its standard deviation (std_dev >= 0, so the    *)
(* square determines it and std_dev = 0 iff var = 0).  Independent         *)
(* ufloats add their variances; multiplying by a number k multiplies the   *)
(* variance by k*k.                                                        *)
(*                                                                         *)
(* Python dicts are functions with a finite domain of keys.  A table       *)
(* [dd, m] is a dict m that is a defaultdict(float) when dd is TRUE: a     *)
(* subscript with a missing key inserts the key with value 0 then, and     *)
(* raises KeyError otherwise.                                              *)
(***************************************************************************)
EXTENDS Integers, Sequences, FiniteSets, TLC

VARIABLES
    corrections,   \* Compatibility.corrections: the ordered list of units
    entries,       \* the entries handed to the aggregator (mutated in place)
    last,          \* the most recent call: operation, arguments, outcome
    calls          \* number of calls made so far

vars == <<corrections, entries, last, calls>>

---------------------------------------------------------------------------
(* Bounds of the model. *)

MaxMult == 2
MaxUnits == 2
MaxBatch == 2
MaxCalls == 2
MaxPsp == 2

---------------------------------------------------------------------------
(* Elements, compositions and reduced formulas (pymatgen.core, outside the *)
(* module under study).                                                    *)

Elements == {"Li", "Fe", "H", "S", "Br", "O"}

\* Element.X, the Pauling electronegativity, times 100.
X(el) ==
    CASE el = "Li" -> 98
      [] el = "Fe" -> 183
      [] el = "H" -> 220
      [] el = "S" -> 258
      [] el = "Br" -> 296
      [] el = "O" -> 344

\* comp.elements: the elements of the composition, in a fixed order.
ElementOrder == <<"Li", "Fe", "H", "S", "Br", "O">>

NoAtoms == [el \in Elements |-> 0]

\* comp[el]: the amount of el, 0 for an element that is not in comp.
Count(comp, el) == IF el \in DOMAIN comp THEN comp[el] ELSE 0

\* Element(el) in comp
Contains(comp, el) == Count(comp, el) > 0

\* comp.elements as a set; len(comp) is its cardinality.
CompElements(comp) == {el \in DOMAIN comp : comp[el] > 0}

CompLen(comp) == Cardinality(CompElements(comp))

RECURSIVE SumOver(_, _)
SumOver(f, S) ==
    IF S = {} THEN 0
    ELSE LET x == CHOOSE y \in S : TRUE
         IN f[x] + SumOver(f, S \ {x})

\* comp.num_atoms
NumAtoms(comp) == SumOver(comp, DOMAIN comp)

Scale(comp, k) == [el \in DOMAIN comp |-> k * comp[el]]

Divides(d, n) == n % d = 0

\* The greatest common divisor of the amounts of a non-empty composition.
CompGcd(comp) ==
    LET m == NumAtoms(comp)
        ds == {d \in 1..m : \A el \in DOMAIN comp : Divides(d, comp[el])}
    IN CHOOSE d \in ds : \A e \in ds : e <= d

Unit(li, fe, h, s, br, o) ==
    [el \in Elements |->
        CASE el = "Li" -> li
          [] el = "Fe" -> fe
          [] el = "H" -> h
          [] el = "S" -> s
          [] el = "Br" -> br
          [] el = "O" -> o]

\* The formulas of the model: name and amounts in lowest terms.  As in
\* Composition.reduced_formula the diatomic elements and the peroxides
\* keep their doubled names (O -> "O2", H -> "H2", LiO -> "Li2O2").
Formulas ==
    { <<"O2", Unit(0, 0, 0, 0, 0, 1)>>,
      <<"H2", Unit(0, 0, 1, 0, 0, 0)>>,
      <<"Fe", Unit(0, 1, 0, 0, 0, 0)>>,
      <<"S", Unit(0, 0, 0, 1, 0, 0)>>,
      <<"H2O", Unit(0, 0, 2, 0, 0, 1)>>,
      <<"Li2O", Unit(2, 0, 0, 0, 0, 1)>>,
      <<"Li2O2", Unit(1, 0, 0, 0, 0, 1)>>,
      <<"LiO2", Unit(1, 0, 0, 0, 0, 2)>>,
      <<"LiO3", Unit(1, 0, 0, 0, 0, 3)>>,
      <<"LiHO", Unit(1, 0, 1, 0, 0, 1)>>,
      <<"Fe2O3", Unit(0, 2, 0, 0, 0, 3)>>,
      <<"FeS", Unit(0, 1, 0, 1, 0, 0)>>,
      <<"FeSO4", Unit(0, 1, 0, 1, 0, 4)>>,
      <<"LiBr", Unit(1, 0, 0, 0, 1, 0)>> }

FormulaNames == {f[1] : f \in Formulas}

FormulaUnit(name) == (CHOOSE f \in Formulas : f[1] = name)[2]

\* comp.reduced_formula
ReducedFormula(comp) ==
    LET g == CompGcd(comp)
        u == [el \in DOMAIN comp |-> comp[el] \div g]
    IN IF \E f \in Formulas : f[2] = u
       THEN (CHOOSE f \in Formulas : f[2] = u)[1]
       ELSE "other"

---------------------------------------------------------------------------
(* ufloat arithmetic (the uncertainties package).                          *)

\* ufloat(n, s): nominal value n, standard deviation s.
ufloat(n, s) == [n |-> n, var |-> s * s]

\* a + b for independent a and b
UAdd(a, b) == [n |-> a.n + b.n, var |-> a.var + b.var]

\* a * k for a number k
UMul(a, k) == [n |-> a.n * k, var |-> a.var * k * k]

\* val != 0: a ufloat equals 0 when its nominal value and its standard
\* deviation are both zero.
UNonZero(a) == a.n # 0 \/ a.var # 0

Zero == ufloat(0, 0)

---------------------------------------------------------------------------
(* Dicts and tables.                                                       *)

EmptyDict == [k \in {} |-> 0]

\* d.get(k, default)
Get(d, k, default) == IF k \in DOMAIN d THEN d[k] ELSE default

Put(d, k, v) == [x \in DOMAIN d \cup {k} |-> IF x = k THEN v ELSE d[x]]

Plain(m) == [dd |-> FALSE, m |-> m]

\* defaultdict(float)
DefaultDict == [dd |-> TRUE, m |-> EmptyDict]

\* k in t
Has(t, k) == k \in DOMAIN t.m

\* t[k]: [st, v, t], the table after the subscript included.
Subscript(t, k) ==
    IF k \in DOMAIN t.m THEN [st |-> "ok", v |-> t.m[k], t |-> t]
    ELSE IF t.dd THEN [st |-> "ok", v |-> 0, t |-> [t EXCEPT !.m = Put(t.m, k, 0)]]
    ELSE [st |-> "KeyError", v |-> 0, t |-> t]

---------------------------------------------------------------------------
(* Input sets (pymatgen.io.vasp.sets, outside the module under study):     *)
(* CONFIG["POTCAR"] maps an element either to a dict with "symbol" and     *)
(* "hash" (detailed) or to the symbol itself; CONFIG["INCAR"]["LDAUU"]     *)
(* maps the most electronegative element to the U values of the others.    *)

\* None, as a value stored in a set of identifiers.
None == "<None>"

MPRelaxSet ==
    [ name |-> "MPRelaxSet",
      detailed |-> TRUE,
      POTCAR |-> ( "Li" :> [symbol |-> "Li_sv", hash |-> "hash_Li_sv"]
                @@ "Fe" :> [symbol |-> "Fe_pv", hash |-> "hash_Fe_pv"]
                @@ "H" :> [symbol |-> "H", hash |-> "hash_H"]
                @@ "O" :> [symbol |-> "O", hash |-> "hash_O"] ),
      LDAUU |-> ( "O" :> ("Fe" :> 53) ) ]

MITRelaxSet ==
    [ name |-> "MITRelaxSet",
      detailed |-> FALSE,
      POTCAR |-> ( "Li" :> "Li" @@ "Fe" :> "Fe" @@ "H" :> "H" @@ "O" :> "O" ),
      LDAUU |-> ( "O" :> ("Fe" :> 40) @@ "S" :> ("Fe" :> 19) ) ]

---------------------------------------------------------------------------
(* Entries.  parameters.potcar_spec is a list of dicts [titel, hash] (the  *)
(* empty list also stands for a missing key: both are falsy under .get;    *)
(* hash is None when the dict has no hash); parameters.potcar_symbols is   *)
(* [has, v], has = FALSE for a missing key.  A potcar title or symbol such *)
(* as "PAW_PBE Fe_pv 06Sep2000" is the sequence of its blank-separated     *)
(* tokens, the empty string the empty sequence.  parameters.hubbards is a  *)
(* dict (None reads as the empty dict); run_type a string, "GGA" when the  *)
(* key is missing; data.oxide_type and data.sulfide_type are strings, ""   *)
(* when missing.  structure.has is hasattr(entry, "structure").            *)

AbsentUnc == [k |-> "absent", var |-> 0]

\* np.nan
NanUnc == [k |-> "nan", var |-> 0]

\* a standard deviation, held as its square
NumUnc(v) == [k |-> "num", var |-> v]

NoStructure == [has |-> FALSE, ox_type |-> "", nbonds |-> 0, sf_type |-> ""]

\* s.split()
Split(s) == s

Symbol(sym) == <<"PAW_PBE", sym, "date">>

\* entry.energy
Energy(e) == e.uncorrected_energy + e.correction

---------------------------------------------------------------------------
(* The structural classifiers (pymatgen.analysis.structure_analyzer): the  *)
(* structure of the model carries what they return for it.                 *)

\* oxide_type(structure, 1.05, return_nbonds=True)
oxide_type(structure) == <<structure.ox_type, structure.nbonds>>

\* sulfide_type(structure)
sulfide_type(structure) == structure.sf_type

---------------------------------------------------------------------------
(* PotcarCorrection                                                        *)

\* PotcarCorrection.__init__: [st, u]
PotcarCorrectionInit(input_set, check_hash) ==
    IF input_set.detailed
    THEN [ st |-> "ok",
           u |-> [ kind |-> "Potcar",
                   input_set |-> input_set,
                   check_hash |-> check_hash,
                   valid_potcars |->
                       [el \in DOMAIN input_set.POTCAR |->
                           IF check_hash THEN input_set.POTCAR[el].hash
                           ELSE input_set.POTCAR[el].symbol] ] ]
    ELSE IF check_hash
    THEN [st |-> "ValueError", u |-> [kind |-> "Potcar"]]
    ELSE [ st |-> "ok",
           u |-> [ kind |-> "Potcar",
                   input_set |-> input_set,
                   check_hash |-> check_hash,
                   valid_potcars |-> input_set.POTCAR ] ]

SeqToSet(s) == {s[i] : i \in 1..Len(s)}

\* The identifiers the entry used: [st, ids].
PspSettings(u, entry) ==
    LET spec == entry.parameters.potcar_spec
        syms == entry.parameters.potcar_symbols
    IN IF u.check_hash
       THEN IF spec # <<>>
            THEN [st |-> "ok", ids |-> {d.hash : d \in SeqToSet(spec)}]
            ELSE [st |-> "ValueError", ids |-> {}]
       ELSE IF spec # <<>>
            THEN IF \E d \in SeqToSet(spec) : Len(Split(d.titel)) < 2
                 THEN [st |-> "IndexError", ids |-> {}]
                 ELSE [st |-> "ok", ids |-> {Split(d.titel)[2] : d \in SeqToSet(spec)}]
            ELSE IF ~syms.has
                 THEN [st |-> "KeyError", ids |-> {}]
                 ELSE LET used == {s \in SeqToSet(syms.v) : s # <<>>}
                      IN IF \E s \in used : Len(Split(s)) < 2
                         THEN [st |-> "IndexError", ids |-> {}]
                         ELSE [st |-> "ok", ids |-> {Split(s)[2] : s \in used}]

\* The identifiers expected for the elements of the composition.
ExpectedPotcars(u, entry) ==
    {Get(u.valid_potcars, el, None) : el \in CompElements(entry.composition)}

\* A variant of the comparison that accepts an entry whose identifiers are
\* among the expected ones.
PotcarCompareSubset(u, entry, psp) ==
    IF psp.st # "ok" THEN [st |-> psp.st, val |-> Zero, u |-> u]
    ELSE IF ~(psp.ids \subseteq ExpectedPotcars(u, entry))
    THEN [st |-> "CompatibilityError", val |-> Zero, u |-> u]
    ELSE [st |-> "ok", val |-> ufloat(0, 0), u |-> u]

\* Lines 178-182: the comparison, given the identifiers psp the entry used.
PotcarCompare(u, entry, psp) ==
    IF psp.st # "ok" THEN [st |-> psp.st, val |-> Zero, u |-> u]
    ELSE IF ExpectedPotcars(u, entry) # psp.ids
    THEN [st |-> "CompatibilityError", val |-> Zero, u |-> u]
    ELSE [st |-> "ok", val |-> ufloat(0, 0), u |-> u]

\* PotcarCorrection.get_correction: [st, val, u]
PotcarGetCorrection(u, entry) == PotcarCompare(u, entry, PspSettings(u, entry))

---------------------------------------------------------------------------
(* GasCorrection                                                           *)

\* GasCorrection.__init__ on the loaded config c
GasCorrectionInit(c) ==
    [kind |-> "Gas", name |-> c.Name, cpd_energies |-> c.CompoundEnergies]

\* GasCorrection.get_correction: [st, val, u]
GasGetCorrection(u, entry) ==
    LET comp == entry.composition
        rform == ReducedFormula(comp)
    IN IF rform \in DOMAIN u.cpd_energies
       THEN [ st |-> "ok",
              val |-> UAdd(Zero, ufloat(u.cpd_energies[rform] * NumAtoms(comp)
                                        - entry.uncorrected_energy, 0)),
              u |-> u ]
       ELSE [st |-> "ok", val |-> Zero, u |-> u]

---------------------------------------------------------------------------
(* Table-driven terms.  An accumulator [st, val, c, e] holds the           *)
(* correction so far, the correction table c and the error table e of the  *)
(* unit (a subscript on a defaultdict changes the table), and st # "ok"    *)
(* once a subscript has raised.                                            *)

Acc(c, e) == [st |-> "ok", val |-> Zero, c |-> c, e |-> e]

\* correction += c[key] * mult
AddValue(a, key, mult) ==
    IF a.st # "ok" THEN a
    ELSE LET r == Subscript(a.c, key)
         IN IF r.st # "ok" THEN [a EXCEPT !.st = r.st]
            ELSE [a EXCEPT !.val = UAdd(@, UMul(ufloat(r.v, 0), mult)), !.c = r.t]

\* correction += ufloat(c[key], e[key]) * mult
AddUfloat(a, key, mult) ==
    IF a.st # "ok" THEN a
    ELSE LET r == Subscript(a.c, key)
         IN IF r.st # "ok" THEN [a EXCEPT !.st = r.st]
            ELSE LET q == Subscript(a.e, key)
                 IN IF q.st # "ok" THEN [a EXCEPT !.st = q.st, !.c = r.t]
                    ELSE [a EXCEPT !.val = UAdd(@, UMul(ufloat(r.v, q.v), mult)),
                                   !.c = r.t, !.e = q.t]

\* UCorrection.common_peroxides, common_superoxides, ozonides
common_peroxides ==
    {"Li2O2", "Na2O2", "K2O2", "Cs2O2", "Rb2O2", "BeO2", "MgO2", "CaO2", "SrO2", "BaO2"}

common_superoxides == {"LiO2", "NaO2", "KO2", "RbO2", "CsO2"}

ozonides == {"LiO3", "NaO3", "KO3", "NaO5"}

---------------------------------------------------------------------------
(* AnionCorrection                                                         *)

\* AnionCorrection.__init__ on the loaded config c; c.SulfideCorrections is
\* the table c.get("SulfideCorrections", defaultdict(float)).
AnionCorrectionInit(c, correct_peroxide) ==
    [ kind |-> "Anion",
      name |-> c.Name,
      oxide_correction |-> Plain(c.OxideCorrections),
      sulfide_correction |-> c.SulfideCorrections,
      correct_peroxide |-> correct_peroxide ]

\* A variant that asks the classifier before it looks at the tag.
SulfideSubtypeClassifierFirst(entry) ==
    IF entry.structure.has THEN sulfide_type(entry.structure)
    ELSE IF entry.data.sulfide_type # "" THEN entry.data.sulfide_type
    ELSE "sulfide"

\* The sulfide subtype: the tag of the entry, else the classifier's answer,
\* else "sulfide".
SulfideSubtype(entry) ==
    IF entry.data.sulfide_type # "" THEN entry.data.sulfide_type
    ELSE IF entry.structure.has THEN sulfide_type(entry.structure)
    ELSE "sulfide"

\* Lines 264-271: the sulfide term, on an accumulator over sulfide_correction.
AnionSulfide(a, entry) ==
    LET comp == entry.composition
        sf_type == SulfideSubtype(entry)
    IN IF Contains(comp, "S") /\ Has(a.c, sf_type)
       THEN AddValue(a, sf_type, Count(comp, "S"))
       ELSE a

\* A variant of the oxygen term that never looks the formula up in the
\* peroxide, superoxide and ozonide lists.
AnionOxideNoLists(a, entry, correct_peroxide) ==
    LET comp == entry.composition
        nO == Count(comp, "O")
        tag == entry.data.oxide_type
    IN IF ~Contains(comp, "O") THEN a
       ELSE IF ~correct_peroxide THEN AddValue(a, "oxide", nO)
       ELSE IF tag # ""
       THEN LET a1 == IF Has(a.c, tag) THEN AddValue(a, tag, nO) ELSE a
            IN IF tag = "hydroxide" THEN AddValue(a1, "oxide", nO) ELSE a1
       ELSE IF entry.structure.has
       THEN LET ox == oxide_type(entry.structure)
            IN IF Has(a.c, ox[1]) THEN AddValue(a, ox[1], ox[2])
               ELSE IF ox[1] = "hydroxide" THEN AddValue(a, "oxide", nO)
               ELSE a
       ELSE IF "O" \in CompElements(comp) /\ CompLen(comp) > 1
       THEN AddValue(a, "oxide", nO)
       ELSE a

\* Lines 274-309: the oxygen term, on an accumulator over oxide_correction.
AnionOxide(a, entry, correct_peroxide) ==
    LET comp == entry.composition
        nO == Count(comp, "O")
        tag == entry.data.oxide_type
        rform == ReducedFormula(comp)
    IN IF ~Contains(comp, "O") THEN a
       ELSE IF ~correct_peroxide THEN AddValue(a, "oxide", nO)
       ELSE IF tag # ""
       THEN LET a1 == IF Has(a.c, tag) THEN AddValue(a, tag, nO) ELSE a
            IN IF tag = "hydroxide" THEN AddValue(a1, "oxide", nO) ELSE a1
       ELSE IF entry.structure.has
       THEN LET ox == oxide_type(entry.structure)
            IN IF Has(a.c, ox[1]) THEN AddValue(a, ox[1], ox[2])
               ELSE IF ox[1] = "hydroxide" THEN AddValue(a, "oxide", nO)
               ELSE a
       ELSE IF rform \in common_peroxides THEN AddValue(a, "peroxide", nO)
       ELSE IF rform \in common_superoxides THEN AddValue(a, "superoxide", nO)
       ELSE IF rform \in ozonides THEN AddValue(a, "ozonide", nO)
       ELSE IF "O" \in CompElements(comp) /\ CompLen(comp) > 1
       THEN AddValue(a, "oxide", nO)
       ELSE a

\* The accumulator after the sulfide term, turned to oxide_correction.
AnionTurn(a, u) == [a EXCEPT !.c = u.oxide_correction]

\* Line 311: return correction
AnionReturn(u, a) == [st |-> a.st, val |-> a.val, u |-> u]

\* A variant of get_correction without the skip of element entries.
AnionGetCorrectionNoSkip(u, entry) ==
    AnionReturn(u,
      AnionOxide(
        AnionTurn(AnionSulfide(Acc(u.sulfide_correction, DefaultDict), entry), u),
        entry, u.correct_peroxide))

\* AnionCorrection.get_correction: [st, val, u].  Neither table changes: a
\* key of sulfide_correction is looked up only when it is there, and
\* oxide_correction is a plain dict.
AnionGetCorrection(u, entry) ==
    IF CompLen(entry.composition) = 1
    THEN [st |-> "ok", val |-> ufloat(0, 0), u |-> u]
    ELSE AnionReturn(u,
           AnionOxide(
             AnionTurn(AnionSulfide(Acc(u.sulfide_correction, DefaultDict), entry), u),
             entry, u.correct_peroxide))

---------------------------------------------------------------------------
(* CompositionCorrection                                                   *)

\* CompositionCorrection.__init__ on the loaded config c and error config:
\* c.CompositionCorrections is c.get("CompositionCorrections",
\* defaultdict(float)); errors is the table self.comp_errors ends up with
\* (a defaultdict when no error file is given or the file has no
\* CompositionCorrections, the file's dict otherwise).
CompositionCorrectionInit(c, errors, correct_peroxide) ==
    [ kind |-> "Composition",
      name |-> c.Name,
      comp_correction |-> c.CompositionCorrections,
      comp_errors |-> errors,
      correct_peroxide |-> correct_peroxide ]

\* Lines 357-364
CompSulfide(a, entry) ==
    LET comp == entry.composition
        sf_type == SulfideSubtype(entry)
    IN IF Contains(comp, "S") /\ Has(a.c, sf_type)
       THEN AddUfloat(a, sf_type, Count(comp, "S"))
       ELSE a

\* Lines 368-405
CompOxide(a, entry, correct_peroxide) ==
    LET comp == entry.composition
        nO == Count(comp, "O")
        tag == entry.data.oxide_type
        rform == ReducedFormula(comp)
    IN IF ~Contains(comp, "O") THEN a
       ELSE IF ~correct_peroxide THEN AddUfloat(a, "oxide", nO)
       ELSE IF tag # ""
       THEN LET a1 == IF Has(a.c, tag) THEN AddUfloat(a, tag, nO) ELSE a
            IN IF tag = "hydroxide" THEN AddUfloat(a1, "oxide", nO) ELSE a1
       ELSE IF entry.structure.has
       THEN LET ox == oxide_type(entry.structure)
            IN IF Has(a.c, ox[1]) THEN AddUfloat(a, ox[1], ox[2])
               ELSE IF ox[1] = "hydroxide" THEN AddUfloat(a, "oxide", nO)
               ELSE a
       ELSE IF rform \in common_peroxides THEN AddUfloat(a, "peroxide", nO)
       ELSE IF rform \in common_superoxides THEN AddUfloat(a, "superoxide", nO)
       ELSE IF rform \in ozonides THEN AddUfloat(a, "ozonide", nO)
       ELSE IF "O" \in CompElements(comp) /\ CompLen(comp) > 1
       THEN AddUfloat(a, "oxide", nO)
       ELSE a

\* Lines 407-414: for each element of the list in turn, the flat per-atom
\* term when the element is in the composition and in the table.
RECURSIVE CompPerAtom(_, _, _)
CompPerAtom(a, entry, els) ==
    IF els = <<>> THEN a
    ELSE LET el == Head(els)
             a1 == IF Contains(entry.composition, el) /\ Has(a.c, el)
                   THEN AddUfloat(a, el, Count(entry.composition, el))
                   ELSE a
         IN CompPerAtom(a1, entry, Tail(els))

ExtraAnions == <<"Br", "I", "Se", "Si", "Sb", "Te">>

ExtraGases == <<"H", "N", "F", "Cl">>

\* Lines 411-414
CompGases(u, a, entry) ==
    IF u.name # "MIT" THEN CompPerAtom(a, entry, ExtraGases) ELSE a

\* Line 416: return correction; the unit holds the tables as they are now.
CompReturn(u, a) ==
    [ st |-> a.st,
      val |-> a.val,
      u |-> [u EXCEPT !.comp_correction = a.c, !.comp_errors = a.e] ]

\* CompositionCorrection.get_correction: [st, val, u]
CompositionGetCorrection(u, entry) ==
    IF CompLen(entry.composition) = 1
    THEN [st |-> "ok", val |-> ufloat(0, 0), u |-> u]
    ELSE CompReturn(u,
           CompGases(u,
             CompPerAtom(
               CompOxide(
                 CompSulfide(Acc(u.comp_correction, u.comp_errors), entry),
                 entry, u.correct_peroxide),
               entry, ExtraAnions),
             entry))

---------------------------------------------------------------------------
(* AqueousCorrection                                                       *)

\* AqueousCorrection.__init__ on the loaded config c; errors is the table
\* self.cpd_errors ends up with.
AqueousCorrectionInit(c, errors) ==
    [ kind |-> "Aqueous",
      name |-> c.Name,
      cpd_energies |-> c.AqueousCompoundEnergies,
      cpd_errors |-> errors ]

Min(a, b) == IF a <= b THEN a ELSE b

\* A variant of the hydration term without the factor 0.5.
HydrationWithoutHalf(comp) == 246 * Min(Count(comp, "H"), 2 * Count(comp, "O"))

\* 0.5 * 2.46 * min(comp["H"] / 2.0, comp["O"]), in units of 0.005 eV
Hydration(comp) == 123 * Min(Count(comp, "H"), 2 * Count(comp, "O"))

\* AqueousCorrection.get_correction: [st, val, u]
AqueousGetCorrection(u, entry) ==
    LET comp == entry.composition
        rform == ReducedFormula(comp)
        n == NumAtoms(comp)
        water == IF rform # "H2O" THEN ufloat(Hydration(comp), 0) ELSE Zero
    IN IF rform \in DOMAIN u.cpd_energies
       THEN LET corr == IF rform \in {"H2", "H2O"}
                        THEN u.cpd_energies[rform] * n - entry.uncorrected_energy
                             - entry.correction
                        ELSE u.cpd_energies[rform] * n
                q == Subscript(u.cpd_errors, rform)
            IN IF q.st # "ok" THEN [st |-> q.st, val |-> Zero, u |-> u]
               ELSE [ st |-> "ok",
                      val |-> UAdd(UAdd(Zero, ufloat(corr, q.v * n)), water),
                      u |-> [u EXCEPT !.cpd_errors = q.t] ]
       ELSE [st |-> "ok", val |-> UAdd(Zero, water), u |-> u]

---------------------------------------------------------------------------
(* UCorrection                                                             *)

\* A variant of __init__ that loads the U settings and the correction table
\* in both modes.
UCorrectionInitTables(c, input_set, compat_type, errors) ==
    IF compat_type \notin {"GGA", "Advanced"}
    THEN [st |-> "CompatibilityError", u |-> [kind |-> "U"]]
    ELSE [ st |-> "ok",
           u |-> [ kind |-> "U",
                   name |-> c.Name,
                   compat_type |-> compat_type,
                   input_set |-> input_set,
                   u_settings |-> input_set.LDAUU,
                   u_corrections |-> c.UCorrections,
                   u_errors |-> IF errors.has THEN errors.UCorrections
                                ELSE EmptyDict ] ]

\* UCorrection.__init__: [st, u].  c is the loaded config; errors is
\* [has, UCorrections]: whether an error file is given and its
\* ["Advanced"]["UCorrections"].
UCorrectionInit(c, input_set, compat_type, errors) ==
    IF compat_type \notin {"GGA", "Advanced"}
    THEN [st |-> "CompatibilityError", u |-> [kind |-> "U"]]
    ELSE [ st |-> "ok",
           u |-> [ kind |-> "U",
                   name |-> c.Name,
                   compat_type |-> compat_type,
                   input_set |-> input_set,
                   u_settings |-> IF compat_type = "Advanced"
                                  THEN input_set.LDAUU ELSE EmptyDict,
                   u_corrections |-> IF compat_type = "Advanced"
                                     THEN c.UCorrections ELSE EmptyDict,
                   u_errors |-> IF errors.has THEN errors.UCorrections
                                ELSE EmptyDict ] ]

Position(el) == CHOOSE i \in 1..Len(ElementOrder) : ElementOrder[i] = el

\* sorted(elements, key=X)[-1]: the most electronegative element present,
\* the last of comp.elements among equals.
MostElectroneg(comp) ==
    LET els == CompElements(comp)
    IN CHOOSE el \in els :
          \A o \in els : X(o) < X(el) \/ (X(o) = X(el) /\ Position(o) <= Position(el))

\* Lines 566-574: the loop over comp.elements.  acc is [st, val].
RECURSIVE ULoop(_, _, _, _, _, _, _)
ULoop(acc, els, comp, calc_u, usettings, ucorr, uerrors) ==
    IF els = <<>> \/ acc.st # "ok" THEN acc
    ELSE LET sym == Head(els)
             next ==
                 IF ~Contains(comp, sym) THEN acc
                 ELSE IF Get(calc_u, sym, 0) # Get(usettings, sym, 0)
                 THEN [acc EXCEPT !.st = "CompatibilityError"]
                 ELSE IF sym \in DOMAIN ucorr
                 THEN LET q == Subscript(uerrors, sym)
                      IN IF q.st # "ok" THEN [acc EXCEPT !.st = q.st]
                         ELSE [acc EXCEPT !.val =
                                  UAdd(@, UMul(ufloat(ucorr[sym], q.v), comp[sym]))]
                 ELSE acc
         IN ULoop(next, Tail(els), comp, calc_u, usettings, ucorr, uerrors)

\* Line 576: return correction
UReturn(u, r) == [st |-> r.st, val |-> r.val, u |-> u]

\* A variant of get_correction that does not look at the run type.
UGetCorrectionAnyRunType(u, entry) ==
    LET comp == entry.composition
        most_electroneg == MostElectroneg(comp)
        ucorr == Get(u.u_corrections, most_electroneg, EmptyDict)
        usettings == Get(u.u_settings, most_electroneg, EmptyDict)
        uerrors == IF most_electroneg \in DOMAIN u.u_errors
                   THEN Plain(u.u_errors[most_electroneg])
                   ELSE DefaultDict
    IN UReturn(u, ULoop([st |-> "ok", val |-> Zero], ElementOrder, comp,
                        entry.parameters.hubbards, usettings, ucorr, uerrors))

\* UCorrection.get_correction: [st, val, u]
UGetCorrection(u, entry) ==
    IF entry.parameters.run_type = "HF"
    THEN [st |-> "CompatibilityError", val |-> Zero, u |-> u]
    ELSE LET comp == entry.composition
             most_electroneg == MostElectroneg(comp)
             ucorr == Get(u.u_corrections, most_electroneg, EmptyDict)
             usettings == Get(u.u_settings, most_electroneg, EmptyDict)
             uerrors == IF most_electroneg \in DOMAIN u.u_errors
                        THEN Plain(u.u_errors[most_electroneg])
                        ELSE DefaultDict
         IN UReturn(u, ULoop([st |-> "ok", val |-> Zero], ElementOrder, comp,
                             entry.parameters.hubbards, usettings, ucorr, uerrors))

---------------------------------------------------------------------------
(* The Correction interface                                                *)

\* c.get_correction(entry): [st, val, u], u the unit after the call
get_correction(u, entry) ==
    CASE u.kind = "Potcar" -> PotcarGetCorrection(u, entry)
      [] u.kind = "Gas" -> GasGetCorrection(u, entry)
      [] u.kind = "Anion" -> AnionGetCorrection(u, entry)
      [] u.kind = "Composition" -> CompositionGetCorrection(u, entry)
      [] u.kind = "Aqueous" -> AqueousGetCorrection(u, entry)
      [] u.kind = "U" -> UGetCorrection(u, entry)

\* Lines 86-88: the standard deviation the entry holds, as its square; 0
\* when the key is missing and when it holds nan.
OldVariance(entry) ==
    IF entry.data.correction_uncertainty.k = "num"
    THEN entry.data.correction_uncertainty.var
    ELSE 0

\* Lines 92-97: the uncertainty correct_entry writes.
UpdatedUncertainty(updated_corr) ==
    IF updated_corr.n # 0 /\ updated_corr.var = 0 THEN NanUnc
    ELSE NumUnc(updated_corr.var)

\* Lines 91-99, given the sum updated_corr.
WriteUpdated(entry, updated_corr) ==
    [entry EXCEPT !.correction = updated_corr.n,
                  !.data.correction_uncertainty = UpdatedUncertainty(updated_corr)]

\* A variant of correct_entry that forgets what the entry held.
ApplyCorrectionOverwrite(entry, r) ==
    IF r.st # "ok" THEN [st |-> r.st, entry |-> entry, u |-> r.u, val |-> Zero]
    ELSE [ st |-> "ok", entry |-> WriteUpdated(entry, r.val), u |-> r.u, val |-> r.val ]

\* Lines 85-99, given what get_correction ended as (r): [st, entry, u, val].
ApplyCorrection(entry, r) ==
    IF r.st # "ok" THEN [st |-> r.st, entry |-> entry, u |-> r.u, val |-> Zero]
    ELSE [ st |-> "ok",
           entry |-> WriteUpdated(entry,
                        UAdd(r.val, [n |-> entry.correction, var |-> OldVariance(entry)])),
           u |-> r.u,
           val |-> r.val ]

\* Correction.correct_entry; val is what get_correction returned.
correct_entry(u, entry) == ApplyCorrection(entry, get_correction(u, entry))

\* str(c), as the sequence of its blank-separated words
Str(u) ==
    CASE u.kind = "Potcar" -> <<u.input_set.name, "Potcar", "Correction">>
      [] u.kind = "Gas" -> <<u.name, "Gas", "Correction">>
      [] u.kind = "Anion" -> <<u.name, "Anion", "Correction">>
      [] u.kind = "Composition" -> <<u.name, "Composition", "Correction">>
      [] u.kind = "Aqueous" -> <<u.name, "Aqueous", "Correction">>
      [] u.kind = "U" -> <<u.name, u.compat_type, "Correction">>

---------------------------------------------------------------------------
(* Compatibility                                                           *)

\* Compatibility.get_corrections_dict: the loop over self.corrections from
\* unit j on.  d is [st, corrections, uncertainties, units]: the two dicts
\* built so far (keyed by str(c)) and the units after the calls made.
RECURSIVE CorrectionsLoop(_, _, _)
\* Lines 642-645: r is what unit j returned (val) or raised.
CorrectionsStep(d, j, r) ==
    IF r.st # "ok"
    THEN [d EXCEPT !.st = r.st, !.units[j] = r.u]
    ELSE IF UNonZero(r.val)
    THEN [ st |-> "ok",
           corrections |-> Put(d.corrections, Str(d.units[j]), r.val.n),
           uncertainties |-> Put(d.uncertainties, Str(d.units[j]), r.val.var),
           units |-> [d.units EXCEPT ![j] = r.u] ]
    ELSE [d EXCEPT !.units[j] = r.u]

\* A variant of the loop that goes on to the next unit after an error.
RECURSIVE CorrectionsLoopNoStop(_, _, _)
CorrectionsLoopNoStop(d, j, entry) ==
    IF j > Len(d.units) THEN d
    ELSE CorrectionsLoopNoStop(
           CorrectionsStep(d, j, get_correction(d.units[j], entry)), j + 1, entry)

CorrectionsLoop(d, j, entry) ==
    IF j > Len(d.units) \/ d.st # "ok" THEN d
    ELSE CorrectionsLoop(
           CorrectionsStep(d, j, get_correction(d.units[j], entry)), j + 1, entry)

get_corrections_dict(units, entry) ==
    CorrectionsLoop([ st |-> "ok", corrections |-> EmptyDict,
                      uncertainties |-> EmptyDict, units |-> units ], 1, entry)

\* A variant that always writes the standard deviation.
ReportedUncertaintyStdDev(total) == NumUnc(total.var)

\* The uncertainty written to entry.data["correction_uncertainty"].
ReportedUncertainty(total) ==
    IF total.n # 0 /\ total.var = 0 THEN NanUnc ELSE NumUnc(total.var)

\* Lines 619-627, given the sum correction_ufloat.
WriteCorrection(entry, units, correction_ufloat) ==
    [ st |-> "ok",
      entry |-> [entry EXCEPT
                   !.correction = correction_ufloat.n,
                   !.data.correction_uncertainty =
                       ReportedUncertainty(correction_ufloat)],
      units |-> units,
      total |-> correction_ufloat ]

\* A variant of process_entry that returns None on every error.
ProcessOutcomeCatchAll(entry, d) ==
    IF d.st # "ok"
    THEN [st |-> "None", entry |-> entry, units |-> d.units, total |-> Zero]
    ELSE WriteCorrection(entry, d.units,
           [ n |-> SumOver(d.corrections, DOMAIN d.corrections),
             var |-> SumOver(d.uncertainties, DOMAIN d.uncertainties) ])

\* A variant of process_entry that writes the corrections gathered before
\* the compatibility error into the entry it reports as incompatible.
ProcessOutcomePartial(entry, d) ==
    IF d.st = "CompatibilityError"
    THEN [ st |-> "None",
           entry |-> [entry EXCEPT !.correction =
                         SumOver(d.corrections, DOMAIN d.corrections)],
           units |-> d.units,
           total |-> Zero ]
    ELSE IF d.st # "ok"
    THEN [st |-> d.st, entry |-> entry, units |-> d.units, total |-> Zero]
    ELSE WriteCorrection(entry, d.units,
           [ n |-> SumOver(d.corrections, DOMAIN d.corrections),
             var |-> SumOver(d.uncertainties, DOMAIN d.uncertainties) ])

\* Lines 613-627, given the outcome d of get_corrections_dict.
ProcessOutcome(entry, d) ==
    IF d.st = "CompatibilityError"
    THEN [st |-> "None", entry |-> entry, units |-> d.units, total |-> Zero]
    ELSE IF d.st # "ok"
    THEN [st |-> d.st, entry |-> entry, units |-> d.units, total |-> Zero]
    ELSE WriteCorrection(entry, d.units,
           [ n |-> SumOver(d.corrections, DOMAIN d.corrections),
             var |-> SumOver(d.uncertainties, DOMAIN d.uncertainties) ])

\* Compatibility.process_entry: [st, entry, units, total].  st is "ok"
\* (the entry is returned), "None" (None is returned) or the error raised.
process_entry(units, entry) == ProcessOutcome(entry, get_corrections_dict(units, entry))

\* None as corrected_energy and as correction_uncertainty of the dict.
NoEnergy == [has |-> FALSE, v |-> 0]

NoUncertainty == [k |-> "None", var |-> 0]

\* No dict: get_explanation_dict raised.
NoExplanation ==
    [ uncorrected_energy |-> 0, corrected_energy |-> NoEnergy,
      correction_uncertainty |-> NoUncertainty, corrections |-> <<>> ]

\* Lines 696-703: one item per unit, by the unit's display name.
ExplanationList(units, d) ==
    [ j \in 1..Len(units) |->
        [ name |-> Str(units[j]),
          value |-> Get(d.corrections, Str(units[j]), 0),
          uncertainty |-> Get(d.uncertainties, Str(units[j]), 0) ] ]

\* Lines 680-705, given what process_entry ended as (p: the entry returned
\* or None) and the outcome d of the second get_corrections_dict.
ExplainOutcome(p, d) ==
    IF d.st # "ok"
    THEN [st |-> d.st, entry |-> p.entry, units |-> d.units, d |-> NoExplanation]
    ELSE [ st |-> "ok",
           entry |-> p.entry,
           units |-> d.units,
           d |-> [ uncorrected_energy |-> p.entry.uncorrected_energy,
                   corrected_energy |->
                       IF p.st = "None" THEN NoEnergy
                       ELSE [has |-> TRUE, v |-> Energy(p.entry)],
                   correction_uncertainty |->
                       IF p.st = "None" THEN NoUncertainty
                       ELSE p.entry.data.correction_uncertainty,
                   corrections |-> ExplanationList(d.units, d) ] ]

\* Lines 679 and 695: an error of process_entry leaves the method; otherwise
\* get_corrections_dict runs again, on the entry as process_entry left it.
ExplainProcessed(p) ==
    IF p.st \notin {"ok", "None"}
    THEN [st |-> p.st, entry |-> p.entry, units |-> p.units, d |-> NoExplanation]
    ELSE ExplainOutcome(p, get_corrections_dict(p.units, p.entry))

\* Compatibility.get_explanation_dict: [st, entry, units, d], d the dict
\* returned without its class name and description strings.
get_explanation_dict(units, entry) == ExplainProcessed(process_entry(units, entry))

\* Compatibility.process_entries: list(filter(None, map(process_entry,
\* entries))), entry by entry from position i on.  b is [st, entries,
\* units, out]: the batch and the units after the calls made, and the
\* positions of the entries returned so far.

\* A variant of the step that does not filter None out.
ProcessEntriesStepKeepNone(b, i, r) ==
    [ st |-> IF r.st \in {"ok", "None"} THEN "ok" ELSE r.st,
      entries |-> [b.entries EXCEPT ![i] = r.entry],
      units |-> r.units,
      out |-> IF r.st \in {"ok", "None"} THEN Append(b.out, i) ELSE <<>> ]

\* The batch after process_entry on entry i ended as r: a returned entry is
\* kept, None is filtered out, an error ends the call.
ProcessEntriesStep(b, i, r) ==
    [ st |-> IF r.st \in {"ok", "None"} THEN "ok" ELSE r.st,
      entries |-> [b.entries EXCEPT ![i] = r.entry],
      units |-> r.units,
      out |-> IF r.st = "ok" THEN Append(b.out, i)
              ELSE IF r.st = "None" THEN b.out
              ELSE <<>> ]

RECURSIVE ProcessEntriesLoop(_, _)
ProcessEntriesLoop(b, i) ==
    IF i > Len(b.entries) \/ b.st # "ok" THEN b
    ELSE ProcessEntriesLoop(
           ProcessEntriesStep(b, i, process_entry(b.units, b.entries[i])), i + 1)

process_entries(units, batch) ==
    ProcessEntriesLoop([st |-> "ok", entries |-> batch, units |-> units,
                        out |-> <<>>], 1)

---------------------------------------------------------------------------
(* The compatibility schemes (lines 740-992).  cfg is the loaded           *)
(* compatibility yaml, err the error table of the uncertainties yaml.      *)

\* MaterialsProjectCompatibility, MITCompatibility
GgaScheme(cfg, input_set, compat_type, correct_peroxide, check_potcar_hash) ==
    << PotcarCorrectionInit(input_set, check_potcar_hash).u,
       GasCorrectionInit(cfg),
       AnionCorrectionInit(cfg, correct_peroxide),
       UCorrectionInit(cfg, input_set, compat_type,
                       [has |-> FALSE, UCorrections |-> EmptyDict]).u >>

\* MaterialsProjectAqueousCompatibility, MITAqueousCompatibility
AqueousScheme(cfg, input_set, compat_type, correct_peroxide, check_potcar_hash) ==
    Append(GgaScheme(cfg, input_set, compat_type, correct_peroxide,
                     check_potcar_hash),
           AqueousCorrectionInit(cfg, DefaultDict))

\* MaterialsProjectCompatibility2020
Scheme2020(cfg, err, compat_type, correct_peroxide, check_potcar_hash) ==
    << PotcarCorrectionInit(MPRelaxSet, check_potcar_hash).u,
       CompositionCorrectionInit(cfg, Plain(err.CompositionCorrections),
                                 correct_peroxide),
       UCorrectionInit(cfg, MPRelaxSet, compat_type,
                       [has |-> TRUE, UCorrections |-> err.UCorrections]).u >>

\* MaterialsProjectAqueousCompatibility2020
AqueousScheme2020(cfg, compat_type, correct_peroxide, check_potcar_hash) ==
    << PotcarCorrectionInit(MPRelaxSet, check_potcar_hash).u,
       CompositionCorrectionInit(cfg, DefaultDict, correct_peroxide),
       UCorrectionInit(cfg, MPRelaxSet, compat_type,
                       [has |-> FALSE, UCorrections |-> EmptyDict]).u,
       AqueousCorrectionInit(cfg, DefaultDict) >>

---------------------------------------------------------------------------
(* Loaded configuration files: the compatibility yaml of a scheme and the  *)
(* error tables of its uncertainties yaml.  Values are per atom, in units  *)
(* of 0.005 eV.  SulfideCorrections and CompositionCorrections are the     *)
(* tables c.get(key, defaultdict(float)) returns.                          *)

OxideTable == "oxide" :> -14 @@ "peroxide" :> -9 @@ "superoxide" :> -3 @@ "ozonide" :> -1

HydroxideTable == OxideTable @@ "hydroxide" :> -5

MPConfig ==
    [ Name |-> "MP",
      CompoundEnergies |-> "O2" :> -49 @@ "H2" :> -33 @@ "H2O" :> -47,
      OxideCorrections |-> OxideTable,
      SulfideCorrections |-> Plain("sulfide" :> -13),
      UCorrections |-> "O" :> ("Fe" :> -55),
      AqueousCompoundEnergies |-> "O2" :> -46 @@ "H2" :> -32 @@ "H2O" :> -50,
      CompositionCorrections |-> DefaultDict ]

MITConfig ==
    [ Name |-> "MIT",
      CompoundEnergies |-> "O2" :> -48,
      OxideCorrections |-> HydroxideTable,
      SulfideCorrections |-> DefaultDict,
      UCorrections |-> "O" :> ("Fe" :> -36) @@ "S" :> ("Fe" :> -19),
      AqueousCompoundEnergies |-> "H2O" :> -51 @@ "Li2O" :> -60,
      CompositionCorrections |->
          Plain(HydroxideTable @@ "sulfide" :> -12 @@ "polysulfide" :> -7
                @@ "Br" :> -6 @@ "H" :> -2) ]

MP2020Config ==
    [ Name |-> "MP2020",
      CompoundEnergies |-> EmptyDict,
      OxideCorrections |-> OxideTable,
      SulfideCorrections |-> Plain("sulfide" :> -12),
      UCorrections |-> "O" :> ("Fe" :> -45),
      AqueousCompoundEnergies |-> "H2" :> -32 @@ "H2O" :> -50 @@ "Fe2O3" :> -70,
      CompositionCorrections |->
          Plain(OxideTable @@ "sulfide" :> -12 @@ "Br" :> -6 @@ "H" :> -3) ]

\* Error tables that hold every key of the tables they match.
MP2020Errors ==
    [ CompositionCorrections |->
          "oxide" :> 1 @@ "peroxide" :> 2 @@ "superoxide" :> 3 @@ "ozonide" :> 0
          @@ "hydroxide" :> 1 @@ "sulfide" :> 2 @@ "polysulfide" :> 1
          @@ "Br" :> 1 @@ "H" :> 0,
      UCorrections |-> "O" :> ("Fe" :> 2) @@ "S" :> ("Fe" :> 1),
      AqueousCompoundEnergies |->
          "O2" :> 0 @@ "H2" :> 1 @@ "H2O" :> 2 @@ "Li2O" :> 1 @@ "Fe2O3" :> 1 ]

Configs == {MPConfig, MITConfig, MP2020Config}

NoErrorFile == [has |-> FALSE, UCorrections |-> EmptyDict]

ErrorFile == [has |-> TRUE, UCorrections |-> MP2020Errors.UCorrections]

---------------------------------------------------------------------------
(* The units the model draws from.                                         *)

PotcarUnits ==
    { PotcarCorrectionInit(MPRelaxSet, FALSE).u,
      PotcarCorrectionInit(MPRelaxSet, TRUE).u,
      PotcarCorrectionInit(MITRelaxSet, FALSE).u }

GasUnits == {GasCorrectionInit(c) : c \in Configs}

AnionUnits == {AnionCorrectionInit(c, p) : c \in Configs, p \in BOOLEAN}

CompositionUnits ==
    {CompositionCorrectionInit(c, e, p) :
        c \in Configs,
        e \in {DefaultDict, Plain(MP2020Errors.CompositionCorrections)},
        p \in BOOLEAN}

AqueousUnits ==
    {AqueousCorrectionInit(c, e) :
        c \in Configs,
        e \in {DefaultDict, Plain(MP2020Errors.AqueousCompoundEnergies)}}

UUnits ==
    {UCorrectionInit(c, s, t, e).u :
        c \in Configs, s \in {MPRelaxSet, MITRelaxSet},
        t \in {"GGA", "Advanced"}, e \in {NoErrorFile, ErrorFile}}

---------------------------------------------------------------------------
(* The entries the model draws from.                                       *)

NoParameters ==
    [ potcar_spec |-> <<>>,
      potcar_symbols |-> [has |-> FALSE, v |-> <<>>],
      hubbards |-> EmptyDict,
      run_type |-> "GGA" ]

NoData == [oxide_type |-> "", sulfide_type |-> "", correction_uncertainty |-> AbsentUnc]

\* ComputedEntry(composition, energy, correction)
ComputedEntry(comp, energy, correction) ==
    [ composition |-> comp,
      uncorrected_energy |-> energy,
      correction |-> correction,
      parameters |-> NoParameters,
      data |-> NoData,
      structure |-> NoStructure ]

Compositions == {Scale(f[2], k) : f \in Formulas, k \in 1..MaxMult}

RECURSIVE SeqsUpTo(_, _)
SeqsUpTo(S, n) ==
    IF n = 0 THEN {<<>>}
    ELSE LET shorter == SeqsUpTo(S, n - 1)
         IN shorter \cup {Append(q, x) : q \in shorter, x \in S}

\* Entries that differ in their pseudopotentials.
PotcarSpecs ==
    { [titel |-> Symbol("Fe_pv"), hash |-> "hash_Fe_pv"],
      [titel |-> Symbol("O"), hash |-> "hash_O"],
      [titel |-> Symbol("O"), hash |-> "hash_O_old"],
      [titel |-> Symbol("Fe_pv"), hash |-> None],
      [titel |-> Symbol("S"), hash |-> None] }

PotcarSymbols == {<<>>, Symbol("Fe_pv"), Symbol("Fe"), Symbol("O"), Symbol("S")}

PotcarParameters ==
    {[NoParameters EXCEPT !.potcar_spec = q] : q \in SeqsUpTo(PotcarSpecs, MaxPsp)}
    \cup {[NoParameters EXCEPT !.potcar_symbols = [has |-> TRUE, v |-> q]] :
             q \in SeqsUpTo(PotcarSymbols, MaxPsp)}
    \cup {[NoParameters EXCEPT !.potcar_spec = <<[titel |-> Symbol("O"), hash |-> "hash_O"]>>,
                               !.potcar_symbols = [has |-> TRUE, v |-> <<Symbol("Fe")>>]]}

PotcarEntries ==
    {[ComputedEntry(FormulaUnit(f), -30, 0) EXCEPT !.parameters = p] :
        f \in {"Fe2O3", "O2", "Fe", "FeS", "S"}, p \in PotcarParameters}

\* Entries that differ in their Hubbard U values and run type.
UValues == {0, 19, 40, 53}

Hubbards ==
    {EmptyDict} \cup {"Fe" :> v : v \in UValues} \cup {"O" :> v : v \in UValues}
    \cup {"Fe" :> v @@ "Li" :> w : v \in UValues, w \in UValues}
    \cup {"Fe" :> v @@ "O" :> w : v \in UValues, w \in UValues}

UEntries ==
    {[ComputedEntry(c, -30, 0) EXCEPT !.parameters.hubbards = h,
                                      !.parameters.run_type = r] :
        c \in {Scale(FormulaUnit(f), k) :
                  f \in {"Fe2O3", "FeS", "Fe", "Li2O", "LiBr"}, k \in 1..MaxMult},
        h \in Hubbards, r \in {"GGA", "GGA+U", "HF"}}

\* Entries that differ in energy and stored correction.
EnergyEntries ==
    {ComputedEntry(c, e, x) : c \in Compositions, e \in {-30, -141}, x \in {0, 7}}

\* Entries that differ in their oxide and sulfide classification.
OxideTypes == {"oxide", "peroxide", "superoxide", "ozonide", "hydroxide"}

SulfideTypes == {"sulfide", "polysulfide"}

Structures ==
    {[has |-> TRUE, ox_type |-> t, nbonds |-> n, sf_type |-> "sulfide"] :
        t \in OxideTypes, n \in 1..MaxMult}
    \cup {[has |-> TRUE, ox_type |-> "oxide", nbonds |-> 1, sf_type |-> t] :
             t \in SulfideTypes}

\* Oxide tags and classifier answers vary for the compositions with oxygen,
\* sulfide ones for those with sulfur.
AnionEntries ==
    { e \in
        {[ComputedEntry(c, -30, 0) EXCEPT !.data.oxide_type = o,
                                          !.data.sulfide_type = s,
                                          !.structure = t] :
            c \in Compositions, o \in OxideTypes \cup {""},
            s \in SulfideTypes \cup {""}, t \in Structures \cup {NoStructure}} :
        /\ ~Contains(e.composition, "O") =>
              /\ e.data.oxide_type = ""
              /\ e.structure.ox_type \in {"", "oxide"}
              /\ e.structure.nbonds <= 1
        /\ ~Contains(e.composition, "S") =>
              /\ e.data.sulfide_type = ""
              /\ e.structure.sf_type \in {"", "sulfide"} }

\* Complete entries for the pipeline.
Run(formula, k, energy, correction, symbols, hubbards, run_type) ==
    [ComputedEntry(Scale(FormulaUnit(formula), k), energy, correction) EXCEPT
        !.parameters.potcar_symbols = [has |-> TRUE, v |-> symbols],
        !.parameters.hubbards = hubbards,
        !.parameters.run_type = run_type]

Fe2O3Run == Run("Fe2O3", 1, -330, 0, <<Symbol("Fe_pv"), Symbol("O")>>, "Fe" :> 53, "GGA+U")

PipelineEntries ==
    { Fe2O3Run,
      [Fe2O3Run EXCEPT !.parameters.potcar_spec =
          << [titel |-> Symbol("O"), hash |-> "hash_O"],
             [titel |-> Symbol("Fe_pv"), hash |-> "hash_Fe_pv"] >>],
      [Fe2O3Run EXCEPT !.parameters.hubbards = EmptyDict, !.parameters.run_type = "GGA"],
      [Fe2O3Run EXCEPT !.parameters.run_type = "HF"],
      [Fe2O3Run EXCEPT !.parameters.potcar_symbols = [has |-> FALSE, v |-> <<>>]],
      Run("H2O", 1, -141, 0, <<Symbol("H"), Symbol("O")>>, EmptyDict, "GGA"),
      [Run("H2O", 2, -282, 7, <<Symbol("O"), Symbol("H")>>, EmptyDict, "GGA")
          EXCEPT !.data.correction_uncertainty = NumUnc(4)],
      Run("H2", 2, -60, 0, <<Symbol("H")>>, EmptyDict, "GGA"),
      Run("O2", 2, -90, 0, <<Symbol("O")>>, EmptyDict, "GGA"),
      Run("Li2O2", 2, -200, 0, <<Symbol("Li_sv"), Symbol("O")>>, EmptyDict, "GGA"),
      Run("Fe", 1, -80, 0, <<Symbol("Fe_pv")>>, EmptyDict, "GGA") }

PipelineUnits ==
    { PotcarCorrectionInit(MPRelaxSet, FALSE).u,
      PotcarCorrectionInit(MPRelaxSet, TRUE).u,
      GasCorrectionInit(MPConfig),
      AnionCorrectionInit(MPConfig, TRUE),
      UCorrectionInit(MPConfig, MPRelaxSet, "Advanced", NoErrorFile).u,
      UCorrectionInit(MP2020Config, MPRelaxSet, "Advanced", ErrorFile).u,
      CompositionCorrectionInit(MP2020Config,
          Plain(MP2020Errors.CompositionCorrections), TRUE),
      CompositionCorrectionInit(MP2020Config, DefaultDict, FALSE),
      AqueousCorrectionInit(MPConfig, DefaultDict) }

Schemes ==
    {GgaScheme(MPConfig, MPRelaxSet, t, TRUE, h) :
        t \in {"GGA", "Advanced"}, h \in BOOLEAN}
    \cup {Scheme2020(MP2020Config, MP2020Errors, "Advanced", TRUE, h) : h \in BOOLEAN}
    \cup { GgaScheme(MITConfig, MITRelaxSet, "Advanced", TRUE, FALSE),
           AqueousScheme(MPConfig, MPRelaxSet, "Advanced", TRUE, FALSE),
           AqueousScheme2020(MP2020Config, "Advanced", TRUE, FALSE) }

---------------------------------------------------------------------------
(* Calls.  last records the most recent call: the operation, the position  *)
(* i of the entry and j of the unit it was made on, how it ended (st),     *)
(* the value returned (val, for get_correction; the total for              *)
(* process_entry), the positions of the entries returned (out, for         *)
(* process_entries), and the entries and units as they were before it.     *)

NoCall ==
    [ op |-> "none", i |-> 0, j |-> 0, st |-> "ok", val |-> Zero, out |-> <<>>,
      entries |-> <<>>, units |-> <<>> ]

\* The state after a call that ended as r.
Called(op, i, j, r, newEntries, val, out) ==
    /\ corrections' = r.units
    /\ entries' = newEntries
    /\ last' = [ op |-> op, i |-> i, j |-> j, st |-> r.st, val |-> val, out |-> out,
                 entries |-> entries, units |-> corrections ]

GetCorrectionCalled(j, i, r) ==
    Called("get_correction", i, j,
           [st |-> r.st, units |-> [corrections EXCEPT ![j] = r.u]],
           entries, r.val, <<>>)

\* corrections[j].get_correction(entries[i])
GetCorrection(j, i) ==
    /\ GetCorrectionCalled(j, i, get_correction(corrections[j], entries[i]))
    /\ UNCHANGED calls

ProcessEntryCalled(i, r) ==
    Called("process_entry", i, 0, r, [entries EXCEPT ![i] = r.entry], r.total, <<>>)

\* Compatibility(corrections).process_entry(entries[i])
ProcessEntry(i) ==
    /\ calls < MaxCalls
    /\ calls' = calls + 1
    /\ ProcessEntryCalled(i, process_entry(corrections, entries[i]))

ProcessEntriesCalled(r) ==
    Called("process_entries", 0, 0, r, r.entries, Zero, r.out)

\* Compatibility(corrections).process_entries(entries)
ProcessEntries ==
    /\ calls < MaxCalls
    /\ calls' = calls + 1
    /\ ProcessEntriesCalled(process_entries(corrections, entries))

GetExplanationDictCalled(i, r) ==
    Called("get_explanation_dict", i, 0, r, [entries EXCEPT ![i] = r.entry], r.d, <<>>)

\* Compatibility(corrections).get_explanation_dict(entries[i])
GetExplanationDict(i) ==
    /\ calls < MaxCalls
    /\ calls' = calls + 1
    /\ GetExplanationDictCalled(i, get_explanation_dict(corrections, entries[i]))

CorrectEntryCalled(j, i, r) ==
    Called("correct_entry", i, j,
           [st |-> r.st, units |-> [corrections EXCEPT ![j] = r.u]],
           [entries EXCEPT ![i] = r.entry], r.val, <<>>)

\* corrections[j].correct_entry(entries[i])
CorrectEntry(j, i) ==
    /\ calls < MaxCalls
    /\ calls' = calls + 1
    /\ CorrectEntryCalled(j, i, correct_entry(corrections[j], entries[i]))

---------------------------------------------------------------------------
(* Specifications.                                                         *)

\* One entry and any list of units: the aggregator on a single entry.
Init ==
    /\ corrections \in SeqsUpTo(PipelineUnits, MaxUnits) \cup Schemes
    /\ entries \in {<<e>> : e \in PipelineEntries}
    /\ last = NoCall
    /\ calls = 0

Next == \E i \in 1..Len(entries) : ProcessEntry(i)

Spec == Init /\ [][Next]_vars

\* A batch of entries and a scheme: process_entries.
InitBatch ==
    /\ corrections \in Schemes
    /\ entries \in SeqsUpTo(PipelineEntries, MaxBatch)
    /\ last = NoCall
    /\ calls = 0

NextBatch == ProcessEntries

SpecBatch == InitBatch /\ [][NextBatch]_vars

\* One unit and one entry: get_correction.
UnitCases ==
    (PotcarUnits \X PotcarEntries)
    \cup (GasUnits \X EnergyEntries)
    \cup (AqueousUnits \X EnergyEntries)
    \cup ((AnionUnits \cup CompositionUnits) \X AnionEntries)
    \cup (UUnits \X UEntries)

InitUnit ==
    /\ \E c \in UnitCases : corrections = <<c[1]>> /\ entries = <<c[2]>>
    /\ last = NoCall
    /\ calls = 0

NextUnit == GetCorrection(1, 1)

SpecUnit == InitUnit /\ [][NextUnit]_vars

\* Units built with an error file whose tables lack keys of the correction
\* tables: the section of the file is a plain dict.
PartialCompositionErrors ==
    { Plain(EmptyDict),
      Plain("oxide" :> 1 @@ "peroxide" :> 2),
      Plain("sulfide" :> 2 @@ "Br" :> 1 @@ "H" :> 0) }

PartialAqueousErrors == {Plain(EmptyDict), Plain("H2" :> 1), Plain("H2O" :> 2 @@ "Fe2O3" :> 1)}

PartialUErrors ==
    { [has |-> TRUE, UCorrections |-> EmptyDict],
      [has |-> TRUE, UCorrections |-> "O" :> EmptyDict],
      [has |-> TRUE, UCorrections |-> "S" :> ("Fe" :> 1)] }

ErrorCases ==
    ({CompositionCorrectionInit(c, e, p) :
         c \in Configs, e \in PartialCompositionErrors, p \in BOOLEAN} \X AnionEntries)
    \cup ({AqueousCorrectionInit(c, e) :
              c \in Configs, e \in PartialAqueousErrors} \X EnergyEntries)
    \cup ({UCorrectionInit(c, s, "Advanced", e).u :
              c \in Configs, s \in {MPRelaxSet, MITRelaxSet}, e \in PartialUErrors}
          \X UEntries)

InitErrors ==
    /\ \E c \in ErrorCases : corrections = <<c[1]>> /\ entries = <<c[2]>>
    /\ last = NoCall
    /\ calls = 0

NextErrors == GetCorrection(1, 1)

SpecErrors == InitErrors /\ [][NextErrors]_vars

\* One entry and any list of units: the explanation of the aggregator.
InitExplain ==
    /\ corrections \in SeqsUpTo(PipelineUnits, MaxUnits) \cup Schemes
    /\ entries \in {<<e>> : e \in PipelineEntries}
    /\ last = NoCall
    /\ calls = 0

NextExplain == \E i \in 1..Len(entries) : GetExplanationDict(i)

SpecExplain == InitExplain /\ [][NextExplain]_vars

\* One entry and a list of units, applied to it one at a time: correct_entry.
InitApply ==
    /\ corrections \in SeqsUpTo(PipelineUnits, MaxUnits) \ {<<>>}
    /\ entries \in {<<e>> : e \in PipelineEntries}
    /\ last = NoCall
    /\ calls = 0

NextApply == \E j \in 1..Len(corrections) : CorrectEntry(j, 1)

SpecApply == InitApply /\ [][NextApply]_vars

---------------------------------------------------------------------------
(* Properties.  Each is stated on the most recent call: last holds its     *)
(* arguments as they were before the call and how it ended, the variables  *)
(* hold the entries and units after it.                                    *)

\* The entry and the unit of the last call, before the call; the entry now.
EntryBefore == last.entries[last.i]

EntryAfter == entries[last.i]

UnitBefore == last.units[last.j]

\* The sum of the nominal values the units' get_correction return for entry.
NominalSum(units, entry) ==
    SumOver([j \in 1..Len(units) |-> get_correction(units[j], entry).val.n],
            1..Len(units))

\* How the units take the entry: "ok", "CompatibilityError" or another error.
Outcome(units, entry) == get_corrections_dict(units, entry).st

\* The display names of the units are pairwise different.
DistinctNames(units) ==
    \A j, k \in 1..Len(units) : Str(units[j]) = Str(units[k]) => j = k

Returned == last.op = "process_entry" /\ last.st = "ok"

\* C1: after every process_entry that returns the entry, for any list of
\* units, the correction written into the entry equals the sum of the
\* nominal values that each unit's get_correction returns for that entry.
C1_TotalIsSumOfUnits ==
    Returned => EntryAfter.correction = NominalSum(last.units, EntryBefore)

\* A returned entry whose units share a display name and each contribute.
C1_SharedName ==
    /\ Returned
    /\ Len(last.units) = 2
    /\ Str(last.units[1]) = Str(last.units[2])
    /\ \A j \in 1..2 : get_correction(last.units[j], EntryBefore).val.n # 0

Batched == last.op = "process_entries"

\* The positions of the batch whose entry raises no compatibility error.
KeptPositions(units, batch) ==
    SelectSeq([i \in 1..Len(batch) |-> i],
              LAMBDA i : Outcome(units, batch[i]) # "CompatibilityError")

\* Some entry of the batch raises an error that is no compatibility error.
Aborting(units, batch) ==
    \E i \in 1..Len(batch) : Outcome(units, batch[i]) \notin {"ok", "CompatibilityError"}

Malformed(u, entry) ==
    /\ u.kind = "Potcar"
    /\ entry.parameters.potcar_spec = <<>>
    /\ (u.check_hash \/ ~entry.parameters.potcar_symbols.has)

\* The error a malformed entry ends with at the unit.
MalformedError(u) == IF u.check_hash THEN "ValueError" ELSE "KeyError"

C4_NanSentinel ==
    Returned =>
        /\ EntryAfter.correction = last.val.n
        /\ EntryAfter.data.correction_uncertainty = NanUnc
               <=> (last.val.n # 0 /\ last.val.var = 0)
        /\ EntryAfter.data.correction_uncertainty # NanUnc
               => EntryAfter.data.correction_uncertainty = NumUnc(last.val.var)

\* A non-zero total without error data: the sentinel is written.
C4_NanWritten ==
    /\ Returned
    /\ last.val.n # 0
    /\ last.val.var = 0
    /\ EntryAfter.data.correction_uncertainty = NanUnc

Asked == last.op = "get_correction"

\* get_correction was called on a unit of one of these kinds.
AskedOf(kinds) == Asked /\ UnitBefore.kind \in kinds

\* The value GasCorrection sets for a formula of its table.
GasValue(u, entry) ==
    IF ReducedFormula(entry.composition) \in DOMAIN u.cpd_energies
    THEN [ n |-> u.cpd_energies[ReducedFormula(entry.composition)]
                     * NumAtoms(entry.composition) - entry.uncorrected_energy,
           var |-> 0 ]
    ELSE Zero

\* C5: for a single-element composition AnionCorrection and
\* CompositionCorrection return zero whatever their tables hold, while
\* GasCorrection returns table energy x atom count - uncorrected energy when
\* its table lists the element's reduced formula, and zero only otherwise.
C5_SingleElement ==
    (Asked /\ CompLen(EntryBefore.composition) = 1) =>
        /\ UnitBefore.kind \in {"Anion", "Composition"}
               => last.st = "ok" /\ last.val = Zero
        /\ UnitBefore.kind = "Gas"
               => last.st = "ok" /\ last.val = GasValue(UnitBefore, EntryBefore)

\* GasCorrection on O2, listed in its table: a non-zero correction.
C5_GasOnO2 ==
    /\ AskedOf({"Gas"})
    /\ ReducedFormula(EntryBefore.composition) = "O2"
    /\ "O2" \in DOMAIN UnitBefore.cpd_energies
    /\ last.st = "ok"
    /\ last.val.n # 0

\* C5 as stated: for a single-element composition GasCorrection,
\* AnionCorrection and CompositionCorrection each return zero.
C5_AlwaysZero ==
    (AskedOf({"Gas", "Anion", "Composition"}) /\ CompLen(EntryBefore.composition) = 1)
        => last.st = "ok" /\ last.val = Zero

\* An entry with oxygen and another element, no oxide tag and no structure.
FallbackEntry(entry) ==
    /\ Contains(entry.composition, "O")
    /\ CompLen(entry.composition) > 1
    /\ entry.data.oxide_type = ""
    /\ ~entry.structure.has

\* The key of the oxygen value: by membership of the reduced formula in the
\* lists, peroxides first, then superoxides, then ozonides, else the oxide.
OxygenKey(rform, correct_peroxide) ==
    IF ~correct_peroxide THEN "oxide"
    ELSE IF rform \in common_peroxides THEN "peroxide"
    ELSE IF rform \in common_superoxides THEN "superoxide"
    ELSE IF rform \in ozonides THEN "ozonide"
    ELSE "oxide"

\* The table a unit takes its oxygen values from, and its value for a key
\* (zero for a key a defaultdict does not hold).
OxygenTable(u) == IF u.kind = "Anion" THEN u.oxide_correction ELSE u.comp_correction

OxygenValue(u, key) == Get(OxygenTable(u).m, key, 0)

\* No element of the entry other than oxygen has a term at the unit.
OnlyOxygenTerm(u, entry) ==
    /\ ~Contains(entry.composition, "S")
    /\ u.kind = "Composition" =>
           \A el \in CompElements(entry.composition) : ~Has(u.comp_correction, el)

\* C6: for an oxygen-containing multi-element entry with no oxide tag and no
\* structure, Anion and Composition corrections take the oxygen value by
\* reduced formula (peroxide, then superoxide, then ozonide, else oxide) in
\* peroxide mode and the oxide value otherwise, times count(O): that is the
\* whole correction when no other element has a term, and in every case the
\* correction differs from that of the same unit with peroxide mode
\* disabled by (chosen value - oxide value) x count(O).
C6_FallbackLists ==
    (AskedOf({"Anion", "Composition"}) /\ FallbackEntry(EntryBefore)) =>
        LET u == UnitBefore
            nO == Count(EntryBefore.composition, "O")
            key == OxygenKey(ReducedFormula(EntryBefore.composition), u.correct_peroxide)
            plain == get_correction([u EXCEPT !.correct_peroxide = FALSE], EntryBefore)
        IN /\ last.st = "ok"
           /\ OnlyOxygenTerm(u, EntryBefore) => last.val.n = OxygenValue(u, key) * nO
           /\ last.val.n - plain.val.n
                  = (OxygenValue(u, key) - OxygenValue(u, "oxide")) * nO

\* Li2O2 in peroxide mode: the peroxide value, which is not the oxide value,
\* times count(O).
C6_Li2O2Peroxide ==
    /\ AskedOf({"Anion"})
    /\ FallbackEntry(EntryBefore)
    /\ UnitBefore.correct_peroxide
    /\ ReducedFormula(EntryBefore.composition) = "Li2O2"
    /\ last.val.n = OxygenValue(UnitBefore, "peroxide") * Count(EntryBefore.composition, "O")
    /\ OxygenValue(UnitBefore, "peroxide") # OxygenValue(UnitBefore, "oxide")

\* get_correction was called on a UCorrection of this mode.
AskedOfU(mode) == AskedOf({"U"}) /\ UnitBefore.compat_type = mode

\* The most electronegative element of the composition.
TopElement(comp) ==
    CHOOSE el \in CompElements(comp) : \A o \in CompElements(comp) : X(o) <= X(el)

\* The U value the entry declares for el, and the one the unit expects for
\* it in the row of the most electronegative element; absent counts as 0.
ActualU(entry, el) == Get(entry.parameters.hubbards, el, 0)

ExpectedU(u, entry, el) ==
    Get(Get(u.u_settings, TopElement(entry.composition), EmptyDict), el, 0)

\* The entry is run with the disallowed method, or an element of its
\* composition has an actual U value that is not the expected one.
Disallowed(u, entry) ==
    \/ entry.parameters.run_type = "HF"
    \/ \E el \in CompElements(entry.composition) :
           ActualU(entry, el) # ExpectedU(u, entry, el)

\* The sum of value x count over the composition's elements in the row.
RowSum(u, entry) ==
    LET row == Get(u.u_corrections, TopElement(entry.composition), EmptyDict)
        els == CompElements(entry.composition) \cap DOMAIN row
    IN SumOver([el \in els |-> row[el] * entry.composition[el]], els)

\* C7: in advanced mode UCorrection.get_correction raises a compatibility
\* error if and only if the run type is HF or some element of the
\* composition has an actual U value different from the one expected in the
\* row of the most electronegative element present (absent counted as 0);
\* otherwise it returns the sum of value x count over the composition's
\* elements listed in that row's correction table.
C7_AdvancedMode ==
    AskedOfU("Advanced") =>
        IF Disallowed(UnitBefore, EntryBefore)
        THEN last.st = "CompatibilityError"
        ELSE last.st = "ok" /\ last.val.n = RowSum(UnitBefore, EntryBefore)

\* An accepted entry that declares a non-zero U for lithium, which is not
\* in its composition, and gets a non-zero correction.
C7_ForeignUAccepted ==
    /\ AskedOfU("Advanced")
    /\ ~Contains(EntryBefore.composition, "Li")
    /\ ActualU(EntryBefore, "Li") # 0
    /\ last.st = "ok"
    /\ last.val.n # 0

\* C8: in plain-GGA mode UCorrection.get_correction raises a compatibility
\* error if and only if the run type is HF or the entry declares a non-zero
\* U value for an element of its composition; otherwise it returns zero
\* with zero uncertainty.
C8_PlainGga ==
    AskedOfU("GGA") =>
        IF \/ EntryBefore.parameters.run_type = "HF"
           \/ \E el \in CompElements(EntryBefore.composition) : ActualU(EntryBefore, el) # 0
        THEN last.st = "CompatibilityError"
        ELSE last.st = "ok" /\ last.val = Zero

\* A plain-GGA unit rejects an entry that declares a U value for its iron.
C8_DeclaredURejected ==
    /\ AskedOfU("GGA")
    /\ EntryBefore.parameters.run_type # "HF"
    /\ Contains(EntryBefore.composition, "Fe")
    /\ ActualU(EntryBefore, "Fe") # 0
    /\ last.st = "CompatibilityError"

\* C8 as stated: in plain-GGA mode get_correction returns zero with zero
\* uncertainty for every entry.
C8_AlwaysZero == AskedOfU("GGA") => last.st = "ok" /\ last.val = Zero

\* The identifiers the entry used, read off its parameters: the hashes of
\* its spec list under hash checking (None for a spec without a hash), else
\* the second word of the titles of its spec list or, without a spec list,
\* of its non-empty symbols.
UsedIdentifiers(u, entry) ==
    LET spec == SeqToSet(entry.parameters.potcar_spec)
        syms == SeqToSet(entry.parameters.potcar_symbols.v) \ {<<>>}
    IN IF u.check_hash THEN {d.hash : d \in spec}
       ELSE IF spec # {} THEN {d.titel[2] : d \in spec}
       ELSE {sym[2] : sym \in syms}

\* The identifiers expected for the composition's elements, None for an
\* element the input set does not configure.
ExpectedIdentifiers(u, entry) ==
    { IF el \in DOMAIN u.valid_potcars THEN u.valid_potcars[el] ELSE None :
        el \in CompElements(entry.composition) }

Unconfigured(u, entry) ==
    \E el \in CompElements(entry.composition) : el \notin DOMAIN u.valid_potcars

C10_AqueousSetsEnergy ==
    LET units == last.units
        aqueous == units[Len(units)]
        rform == ReducedFormula(EntryBefore.composition)
    IN ( /\ Returned
         /\ units # <<>>
         /\ DistinctNames(units)
         /\ aqueous.kind = "Aqueous"
         /\ EntryBefore.correction = 0
         /\ rform \in {"H2", "H2O"} \cap DOMAIN aqueous.cpd_energies )
       => Energy(EntryAfter) = aqueous.cpd_energies[rform] * NumAtoms(EntryBefore.composition)

\* An H2 entry through a gas unit and then the aqueous unit.
C10_GasThenAqueous ==
    /\ Returned
    /\ Len(last.units) = 2
    /\ last.units[1].kind = "Gas"
    /\ last.units[2].kind = "Aqueous"
    /\ EntryBefore.correction = 0
    /\ ReducedFormula(EntryBefore.composition) = "H2"
    /\ get_correction(last.units[1], EntryBefore).val.n # 0

\* 0.5 x 2.46 eV x min(count(H)/2, count(O)), in units of 0.005 eV: the
\* minimum of 123 x count(H) and 246 x count(O).
FlatHydration(comp) ==
    IF 123 * Count(comp, "H") <= 246 * Count(comp, "O")
    THEN 123 * Count(comp, "H")
    ELSE 246 * Count(comp, "O")

\* The part of the aqueous correction that comes from the table.
AqueousTablePart(u, entry) ==
    LET rform == ReducedFormula(entry.composition)
        n == NumAtoms(entry.composition)
    IN IF rform \notin DOMAIN u.cpd_energies THEN 0
       ELSE IF rform \in {"H2", "H2O"}
       THEN u.cpd_energies[rform] * n - entry.uncorrected_energy - entry.correction
       ELSE u.cpd_energies[rform] * n

\* C11: AqueousCorrection returns the table part plus the flat hydration
\* term 0.5 x 2.46 x min(count(H)/2, count(O)) for every entry whose reduced
\* formula is not H2O, in the table or not, and the table part alone for
\* H2O; for a formula of the table other than H2 and H2O the table part is
\* table energy x atom count, and the value is the same whatever the entry's
\* uncorrected energy and stored correction.
C11_Hydration ==
    AskedOf({"Aqueous"}) =>
        LET rform == ReducedFormula(EntryBefore.composition)
            bare == [EntryBefore EXCEPT !.uncorrected_energy = 0, !.correction = 0]
        IN /\ last.st = "ok"
           /\ last.val.n = AqueousTablePart(UnitBefore, EntryBefore)
                  + (IF rform # "H2O" THEN FlatHydration(EntryBefore.composition) ELSE 0)
           /\ rform \in DOMAIN UnitBefore.cpd_energies \ {"H2", "H2O"} =>
                  /\ AqueousTablePart(UnitBefore, EntryBefore)
                         = UnitBefore.cpd_energies[rform] * NumAtoms(EntryBefore.composition)
                  /\ last.val = get_correction(UnitBefore, bare).val

\* LiHO, which no aqueous table lists, gets the hydration term alone.
C11_HydrationOutsideTable ==
    /\ AskedOf({"Aqueous"})
    /\ ReducedFormula(EntryBefore.composition) = "LiHO"
    /\ "LiHO" \notin DOMAIN UnitBefore.cpd_energies
    /\ last.val.n = FlatHydration(EntryBefore.composition)
    /\ last.val.n # 0

Applied == last.op = "correct_entry" /\ last.st = "ok"

\* The units applied to the entry one after another, from unit j on.
RECURSIVE ApplyInOrder(_, _, _)
ApplyInOrder(units, entry, j) ==
    IF j > Len(units) THEN entry
    ELSE ApplyInOrder(units, correct_entry(units[j], entry).entry, j + 1)

\* The entry with no correction and no uncertainty yet.
Fresh(entry) ==
    [entry EXCEPT !.correction = 0, !.data.correction_uncertainty = AbsentUnc]

\* Every unit accepts the entry and none reads the entry's stored correction.
PlainUnits(units, entry) ==
    \A j \in 1..Len(units) :
        /\ units[j].kind # "Aqueous"
        /\ get_correction(units[j], entry).st = "ok"

\* C12: correct_entry sets the entry's correction to its previous correction
\* plus the nominal value get_correction returned, and its uncertainty to
\* the quadrature sum of the previous uncertainty (missing or not-a-number
\* counted as 0) and the new one, or to not-a-number when the updated
\* correction is non-zero and that sum is zero; a call that raises leaves
\* the entry as it was; the units applied in order to an entry with zero
\* correction leave the sum of their values in it.
C12_CorrectEntry ==
    /\ Applied =>
          LET old == IF EntryBefore.data.correction_uncertainty.k = "num"
                     THEN EntryBefore.data.correction_uncertainty.var ELSE 0
              variance == old + last.val.var
          IN /\ last.val = get_correction(UnitBefore, EntryBefore).val
             /\ EntryAfter.correction = EntryBefore.correction + last.val.n
             /\ EntryAfter.data.correction_uncertainty =
                    IF EntryAfter.correction # 0 /\ variance = 0
                    THEN NanUnc ELSE NumUnc(variance)
             /\ PlainUnits(last.units, Fresh(EntryBefore)) =>
                    ApplyInOrder(last.units, Fresh(EntryBefore), 1).correction
                        = NominalSum(last.units, Fresh(EntryBefore))
    /\ (last.op = "correct_entry" /\ last.st # "ok") => EntryAfter = EntryBefore

\* A second application to an entry that holds a correction and an
\* uncertainty already, by a unit with error data.
C12_SecondApplication ==
    /\ Applied
    /\ calls = 2
    /\ EntryBefore.correction # 0
    /\ EntryBefore.data.correction_uncertainty.k = "num"
    /\ EntryBefore.data.correction_uncertainty.var > 0
    /\ last.val.n # 0
    /\ last.val.var > 0

\* The sum of the squared standard deviations the units' get_correction
\* return for entry.
VarianceSum(units, entry) ==
    SumOver([j \in 1..Len(units) |-> get_correction(units[j], entry).val.var],
            1..Len(units))

\* The squared standard deviation of the row's terms, each |count| x the
\* standard deviation the error table gives for the element.
RowVariance(u, entry) ==
    LET row == Get(u.u_corrections, TopElement(entry.composition), EmptyDict)
        errors == Get(u.u_errors, TopElement(entry.composition), EmptyDict)
        els == CompElements(entry.composition) \cap DOMAIN row
    IN SumOver([el \in els |->
                   (Get(errors, el, 0) * entry.composition[el])
                 * (Get(errors, el, 0) * entry.composition[el])], els)

\* The entry came back from a single Hubbard-U unit in advanced mode.
ReturnedFromU ==
    /\ Returned
    /\ Len(last.units) = 1
    /\ last.units[1].kind = "U"
    /\ last.units[1].compat_type = "Advanced"

\* C13: the square of the standard deviation of the total that process_entry
\* writes equals the sum of the squares of the standard deviations of the
\* units' corrections, and a table term of standard deviation a multiplied
\* by an atom count k contributes standard deviation |k| x a.
C13_IndependentErrors ==
    /\ Returned => last.val.var = VarianceSum(last.units, EntryBefore)
    /\ (Returned /\ EntryAfter.data.correction_uncertainty.k = "num") =>
           EntryAfter.data.correction_uncertainty.var
               = VarianceSum(last.units, EntryBefore)
    /\ ReturnedFromU => last.val.var = RowVariance(last.units[1], EntryBefore)

\* A returned entry whose two units share a display name and each return a
\* correction with a non-zero standard deviation.
C13_SharedNameWithErrors ==
    /\ Returned
    /\ Len(last.units) = 2
    /\ Str(last.units[1]) = Str(last.units[2])
    /\ \A j \in 1..2 : get_correction(last.units[j], EntryBefore).val.var > 0

\* The scaling alone: one unit, two atoms of the corrected element.
C13_ScaledTerm ==
    ReturnedFromU => last.val.var = RowVariance(last.units[1], EntryBefore)

\* The unit with every key its error table lacks read as 0.
ZeroForAbsent(u) ==
    CASE u.kind = "Composition" -> [u EXCEPT !.comp_errors.dd = TRUE]
      [] u.kind = "Aqueous" -> [u EXCEPT !.cpd_errors.dd = TRUE]
      [] u.kind = "U" ->
            [u EXCEPT !.u_errors =
                [k \in DOMAIN u.u_errors |->
                    [el \in Elements |-> Get(u.u_errors[k], el, 0)]]]
      [] OTHER -> u

\* C14: when an error table is configured but lacks the key of a term being
\* applied, get_correction of the Composition, Aqueous and Hubbard-U units
\* still returns normally, with the value it would return if the table held
\* 0 for that key: the nominal value unchanged, uncertainty 0 for that term.
C14_AbsentErrorKeyIsZero ==
    AskedOf({"Composition", "Aqueous", "U"}) =>
        /\ last.st = get_correction(ZeroForAbsent(UnitBefore), EntryBefore).st
        /\ last.val = get_correction(ZeroForAbsent(UnitBefore), EntryBefore).val

\* A term whose key the configured error table lacks ends the call with a
\* KeyError.
C14_AbsentErrorKeyRaises ==
    /\ AskedOf({"Composition", "Aqueous", "U"})
    /\ last.st = "KeyError"
    /\ get_correction(ZeroForAbsent(UnitBefore), EntryBefore).st = "ok"
    /\ get_correction(ZeroForAbsent(UnitBefore), EntryBefore).val.n # 0

Processed == last.op = "process_entry"

\* How unit j alone takes the entry.
UnitOutcome(units, entry, j) == get_correction(units[j], entry).st

\* Unit j is the first of the list that raises on the entry.
FirstToRaise(units, entry, j) ==
    /\ UnitOutcome(units, entry, j) # "ok"
    /\ \A k \in 1..(j - 1) : UnitOutcome(units, entry, k) = "ok"

\* C15: process_entry evaluates the units in list order: the first unit that
\* raises decides the outcome, the units before it have been evaluated and
\* those after it have not; when it raises a compatibility error the entry
\* is reported incompatible (None) and no error reaches the caller, whatever
\* the later units would have raised.
C15_StopsAtFirstError ==
    Processed =>
        \A j \in 1..Len(last.units) :
            FirstToRaise(last.units, EntryBefore, j) =>
                /\ last.st = IF UnitOutcome(last.units, EntryBefore, j) = "CompatibilityError"
                             THEN "None"
                             ELSE UnitOutcome(last.units, EntryBefore, j)
                /\ \A k \in 1..(j - 1) :
                       corrections[k] = get_correction(last.units[k], EntryBefore).u
                /\ \A k \in (j + 1)..Len(last.units) : corrections[k] = last.units[k]

\* The first unit raises a compatibility error and the second, which on its
\* own would raise another error, is not evaluated: None is returned.
C15_LaterErrorNotRaised ==
    /\ Processed
    /\ Len(last.units) = 2
    /\ UnitOutcome(last.units, EntryBefore, 1) = "CompatibilityError"
    /\ UnitOutcome(last.units, EntryBefore, 2) \notin {"ok", "CompatibilityError"}
    /\ last.st = "None"

\* The entry is classified as hydroxide: by its oxide tag or, without a tag,
\* by the classifier on its structure.
ClassifiedHydroxide(entry) ==
    \/ entry.data.oxide_type = "hydroxide"
    \/ /\ entry.data.oxide_type = ""
       /\ entry.structure.has
       /\ entry.structure.ox_type = "hydroxide"

\* get_correction of an Anion or Composition unit in peroxide mode on a
\* multi-element entry with oxygen that is classified as hydroxide.
AskedOnHydroxide ==
    /\ AskedOf({"Anion", "Composition"})
    /\ UnitBefore.correct_peroxide
    /\ Contains(EntryBefore.composition, "O")
    /\ CompLen(EntryBefore.composition) > 1
    /\ ClassifiedHydroxide(EntryBefore)

\* C16: in peroxide mode, for an oxygen-containing multi-element entry
\* classified as hydroxide, the oxygen term of the Anion and Composition
\* corrections is the generic oxide value x count(O) and nothing else,
\* whatever keys the table holds: it is the whole correction when no other
\* element has a term, and the correction is that of the same unit with
\* peroxide mode disabled.
C16_HydroxideIsOxide ==
    AskedOnHydroxide =>
        /\ last.st = "ok"
        /\ OnlyOxygenTerm(UnitBefore, EntryBefore) =>
               last.val.n = OxygenValue(UnitBefore, "oxide")
                              * Count(EntryBefore.composition, "O")
        /\ last.val.n = get_correction([UnitBefore EXCEPT !.correct_peroxide = FALSE],
                                       EntryBefore).val.n

\* A hydroxide-tagged entry at a unit whose table has a hydroxide value: the
\* oxygen term is (hydroxide value + oxide value) x count(O).
C16_TaggedHydroxideAddsBoth ==
    /\ AskedOnHydroxide
    /\ EntryBefore.data.oxide_type = "hydroxide"
    /\ OnlyOxygenTerm(UnitBefore, EntryBefore)
    /\ OxygenValue(UnitBefore, "hydroxide") # 0
    /\ last.val.n = (OxygenValue(UnitBefore, "hydroxide") + OxygenValue(UnitBefore, "oxide"))
                       * Count(EntryBefore.composition, "O")

\* The table a unit takes its sulfur values from.
SulfurTable(u) == IF u.kind = "Anion" THEN u.sulfide_correction ELSE u.comp_correction

\* The sulfide subtype by priority: tag, classifier, generic.
ChosenSulfide(entry) ==
    IF entry.data.sulfide_type # "" THEN entry.data.sulfide_type
    ELSE IF entry.structure.has THEN entry.structure.sf_type
    ELSE "sulfide"

\* value x count(S) if the chosen subtype is a key of the table, else zero.
SulfurTerm(u, entry) ==
    IF Contains(entry.composition, "S") /\ Has(SulfurTable(u), ChosenSulfide(entry))
    THEN SulfurTable(u).m[ChosenSulfide(entry)] * Count(entry.composition, "S")
    ELSE 0

\* The oxygen term by priority, for a subtype other than hydroxide: the tag
\* with count(O), else the classifier with the bond count, else the lists
\* with count(O); a subtype that is no key of the table gives zero.
OxygenTerm(u, entry) ==
    LET nO == Count(entry.composition, "O")
        tag == entry.data.oxide_type
    IN IF ~Contains(entry.composition, "O") THEN 0
       ELSE IF ~u.correct_peroxide THEN OxygenValue(u, "oxide") * nO
       ELSE IF tag # "" THEN OxygenValue(u, tag) * nO
       ELSE IF entry.structure.has
       THEN OxygenValue(u, entry.structure.ox_type) * entry.structure.nbonds
       ELSE OxygenValue(u, OxygenKey(ReducedFormula(entry.composition), TRUE)) * nO

\* The per-atom terms of the Composition correction for the other elements.
OtherTerms(u, entry) ==
    IF u.kind # "Composition" THEN 0
    ELSE LET listed == {"Br", "I", "Se", "Si", "Sb", "Te"}
                       \cup (IF u.name # "MIT" THEN {"H", "N", "F", "Cl"} ELSE {})
             els == {el \in CompElements(entry.composition) \cap listed :
                        Has(u.comp_correction, el)}
         IN SumOver([el \in els |-> u.comp_correction.m[el] * entry.composition[el]], els)

\* In peroxide mode the entry has oxygen and is classified as hydroxide.
HydroxideCase(u, entry) ==
    u.correct_peroxide /\ Contains(entry.composition, "O") /\ ClassifiedHydroxide(entry)

\* get_correction of an Anion or Composition unit on a multi-element entry.
AskedOnCompound ==
    AskedOf({"Anion", "Composition"}) /\ CompLen(EntryBefore.composition) > 1

\* C17: the classification sources are used in strict priority.  For oxygen
\* in peroxide mode a tag decides whenever present (multiplier count(O)),
\* the classifier only without a tag and with a structure (multiplier bond
\* count for subtypes other than hydroxide), the formula lists only when
\* neither exists.  For sulfur the tag is preferred, else the classifier,
\* else the generic sulfide subtype, and the term is value x count(S) only
\* if the chosen subtype is a key of the table.  With an oxide tag the
\* structure's oxide classification makes no difference, with a sulfide tag
\* the structure's sulfide classification makes none.
C17_SourcePriority ==
    AskedOnCompound =>
        /\ last.st = "ok"
        /\ ~HydroxideCase(UnitBefore, EntryBefore) =>
               last.val.n = OxygenTerm(UnitBefore, EntryBefore)
                          + SulfurTerm(UnitBefore, EntryBefore)
                          + OtherTerms(UnitBefore, EntryBefore)
        /\ (EntryBefore.data.oxide_type # "" /\ EntryBefore.structure.has) =>
               \A t \in OxideTypes, n \in 1..MaxMult :
                   get_correction(UnitBefore,
                       [EntryBefore EXCEPT !.structure.ox_type = t,
                                           !.structure.nbonds = n]).val = last.val
        /\ (EntryBefore.data.sulfide_type # "" /\ EntryBefore.structure.has) =>
               \A t \in SulfideTypes :
                   get_correction(UnitBefore,
                       [EntryBefore EXCEPT !.structure.sf_type = t]).val = last.val

\* A sulfur entry tagged polysulfide whose structure the classifier calls
\* sulfide, at a unit with different values for the two: the tag's value.
C17_TagOverClassifier ==
    /\ AskedOnCompound
    /\ Contains(EntryBefore.composition, "S")
    /\ ~Contains(EntryBefore.composition, "O")
    /\ EntryBefore.data.sulfide_type = "polysulfide"
    /\ EntryBefore.structure.has
    /\ EntryBefore.structure.sf_type = "sulfide"
    /\ Has(SulfurTable(UnitBefore), "polysulfide")
    /\ Has(SulfurTable(UnitBefore), "sulfide")
    /\ SulfurTable(UnitBefore).m["polysulfide"] # SulfurTable(UnitBefore).m["sulfide"]
    /\ last.val.n = SulfurTable(UnitBefore).m["polysulfide"]
                       * Count(EntryBefore.composition, "S")

\* C18: get_correction leaves the unit's configuration unchanged: the key
\* sets and values of its correction and error tables, its name and its
\* mode flags are the same before and after the call, also when no error
\* file was configured.
C18_UnitUnchanged ==
    Asked => corrections[last.j] = UnitBefore

\* A Composition unit built without an error file returns a correction with
\* an oxygen term, and its error table has gained the key "oxide".
C18_ErrorTableGrows ==
    /\ AskedOf({"Composition"})
    /\ last.st = "ok"
    /\ last.val.n # 0
    /\ UnitBefore.comp_errors = DefaultDict
    /\ Has(corrections[last.j].comp_errors, "oxide")
    /\ corrections[last.j].comp_correction = UnitBefore.comp_correction

\* C19: process_entry never leaves an entry partially corrected: when it
\* returns the entry every unit has returned and only the entry's correction
\* and its correction uncertainty have changed, to the total of that call;
\* when it returns None (or raises) the entry, its correction and auxiliary
\* data included, is exactly what it was before the call.
C19_NoPartialCorrection ==
    Processed =>
        IF last.st = "ok"
        THEN /\ \A j \in 1..Len(last.units) :
                    UnitOutcome(last.units, EntryBefore, j) = "ok"
             /\ EntryAfter = [EntryBefore EXCEPT
                                 !.correction = last.val.n,
                                 !.data.correction_uncertainty =
                                     EntryAfter.data.correction_uncertainty]
        ELSE EntryAfter = EntryBefore

\* None is returned after a first unit that returned a non-zero correction
\* and a second that raised a compatibility error.
C19_NoneAfterContribution ==
    /\ Processed
    /\ last.st = "None"
    /\ Len(last.units) = 2
    /\ UnitOutcome(last.units, EntryBefore, 1) = "ok"
    /\ get_correction(last.units[1], EntryBefore).val.n # 0
    /\ UnitOutcome(last.units, EntryBefore, 2) = "CompatibilityError"
    /\ EntryAfter = EntryBefore

Explained == last.op = "get_explanation_dict"

\* The sum of the values the explanation lists.
ListedSum(d) ==
    SumOver([j \in 1..Len(d.corrections) |-> d.corrections[j].value],
            1..Len(d.corrections))

\* C20: get_explanation_dict returns a dict for any entry.  For an entry
\* that process_entry reports as incompatible the dict has None as corrected
\* energy and as correction uncertainty, the uncorrected energy, and one
\* item per unit, and nothing is raised; for a compatible entry the values
\* listed per unit are those whose sum was written to the entry.
C20_ExplainsAnyEntry ==
    Explained =>
        /\ process_entry(last.units, EntryBefore).st = "None" =>
               /\ last.st = "ok"
               /\ last.val.corrected_energy = NoEnergy
               /\ last.val.correction_uncertainty = NoUncertainty
               /\ last.val.uncorrected_energy = EntryBefore.uncorrected_energy
               /\ Len(last.val.corrections) = Len(last.units)
        /\ process_entry(last.units, EntryBefore).st = "ok" =>
               /\ last.st = "ok"
               /\ ListedSum(last.val) = EntryAfter.correction

\* The explanation of an incompatible entry ends with the compatibility
\* error, raised by the second get_corrections_dict.
C20_IncompatibleRaises ==
    /\ Explained
    /\ process_entry(last.units, EntryBefore).st = "None"
    /\ last.st = "CompatibilityError"

\* process_entry returned the entry it had already returned once.
ProcessedAgain == Returned /\ calls = 2

\* C21: process_entry is idempotent: a second call in a row on a compatible
\* entry leaves the correction and the uncertainty the first call wrote, and
\* what a call writes is what it would write had the entry held no
\* correction before.
C21_Idempotent ==
    /\ ProcessedAgain =>
           /\ EntryAfter.correction = EntryBefore.correction
           /\ EntryAfter.data.correction_uncertainty
                  = EntryBefore.data.correction_uncertainty
    /\ Returned =>
           EntryAfter.correction
               = process_entry(last.units, [EntryBefore EXCEPT !.correction = 0]).entry.correction

\* A second call on an H2 or H2O entry under units that include the aqueous
\* correction writes another correction than the first call did.
C21_SecondCallDiffers ==
    /\ ProcessedAgain
    /\ \E j \in 1..Len(last.units) : last.units[j].kind = "Aqueous"
    /\ ReducedFormula(EntryBefore.composition) \in {"H2", "H2O"}
    /\ EntryAfter.correction # EntryBefore.correction

====
